---- MODULE Spec2Model ----
(***************************************************************************)
(* A model of generate_assets.py, the one-shot generator of the Xiangqi    *)
(* piece textures.  The script runs top to bottom: it creates the output   *)
(* directory, probes an ordered list of font paths, loads a font (or the   *)
(* built-in default), renders and saves one image per (side, piece), and   *)
(* finally defines create_board_image, which it never calls.               *)
(*                                                                         *)
(* Strings that the code transforms (the piece names, which it lowercases  *)
(* into file names) are sequences of one-character strings, so that        *)
(* str.lower() and the f-string concatenation are computed.  Positions     *)
(* that the code computes in floating point are kept in tenths of a pixel. *)
(* The environment (which font files exist, whether the font file loads,   *)
(* what the text measurement returns, whether an I/O call fails) is        *)
(* nondeterministic.                                                       *)
(***************************************************************************)
EXTENDS FiniteSets, Integers, Sequences, TLC

----------------------------------------------------------------------------
(* Bounds of the model *)

\* how many times the generator is run, one run after the other
MaxRuns == 2
\* supersampling factors 1..MaxScale are tried by the render harness
MaxScale == 4
\* depth at which the interpreter raises RecursionError (1000 in CPython)
RecursionLimit == 3

----------------------------------------------------------------------------
(* Program constants *)

target_size == 128
scale_factor == 4
FontSize == 280
BoardSize == 1024

font_paths ==
    << "/usr/share/fonts/google-droid-sans-fonts/DroidSansFallbackFull.ttf",
       "/usr/share/fonts/truetype/arphic/uming.ttc",
       "/usr/share/fonts/opentype/noto/NotoSansCJK-Regular.ttc",
       "/usr/share/fonts/noto-cjk/NotoSansCJK-Regular.ttc",
       "DroidSansFallbackFull.ttf" >>

\* the glyphs are named by their code points
pieces_map ==
    << [name |-> <<"G", "e", "n", "e", "r", "a", "l">>,      red |-> "U+5E25", black |-> "U+5C07"],
       [name |-> <<"A", "d", "v", "i", "s", "o", "r">>,      red |-> "U+4ED5", black |-> "U+58EB"],
       [name |-> <<"E", "l", "e", "p", "h", "a", "n", "t">>, red |-> "U+76F8", black |-> "U+8C61"],
       [name |-> <<"H", "o", "r", "s", "e">>,                red |-> "U+508C", black |-> "U+99AC"],
       [name |-> <<"C", "h", "a", "r", "i", "o", "t">>,      red |-> "U+4FE5", black |-> "U+8ECA"],
       [name |-> <<"C", "a", "n", "n", "o", "n">>,           red |-> "U+70AE", black |-> "U+7832"],
       [name |-> <<"S", "o", "l", "d", "i", "e", "r">>,      red |-> "U+5175", black |-> "U+5352"] >>

colors ==
    [red   |-> [text |-> "#8B0000", bg |-> "#F0D9B5"],
     black |-> [text |-> "#000000", bg |-> "#F0D9B5"]]

None == "None"

----------------------------------------------------------------------------
(* Strings *)

UpperCase ==
    <<"A", "B", "C", "D", "E", "F", "G", "H", "I", "J", "K", "L", "M",
      "N", "O", "P", "Q", "R", "S", "T", "U", "V", "W", "X", "Y", "Z">>

LowerCase ==
    <<"a", "b", "c", "d", "e", "f", "g", "h", "i", "j", "k", "l", "m",
      "n", "o", "p", "q", "r", "s", "t", "u", "v", "w", "x", "y", "z">>

LowerChar(c) ==
    IF \E n \in 1..Len(UpperCase) : UpperCase[n] = c
    THEN LowerCase[CHOOSE n \in 1..Len(UpperCase) : UpperCase[n] = c]
    ELSE c

\* str.lower() without the conversion: the name is used as it is
lower_identity(s) == s

\* str.lower()
lower(s) == [n \in 1..Len(s) |-> LowerChar(s[n])]

\* f"assets/textures/red_{piece_name.lower()}.png"
filename_red(piece_name) ==
    <<"a", "s", "s", "e", "t", "s", "/", "t", "e", "x", "t", "u", "r", "e", "s", "/",
      "r", "e", "d", "_">> \o lower(piece_name) \o <<".", "p", "n", "g">>

\* f"assets/textures/black_{piece_name.lower()}.png"
filename_black(piece_name) ==
    <<"a", "s", "s", "e", "t", "s", "/", "t", "e", "x", "t", "u", "r", "e", "s", "/",
      "b", "l", "a", "c", "k", "_">> \o lower(piece_name) \o <<".", "p", "n", "g">>

board_png ==
    <<"a", "s", "s", "e", "t", "s", "/", "t", "e", "x", "t", "u", "r", "e", "s", "/",
      "b", "o", "a", "r", "d", ".", "p", "n", "g">>

pixel_png ==
    <<"a", "s", "s", "e", "t", "s", "/", "t", "e", "x", "t", "u", "r", "e", "s", "/",
      "p", "i", "x", "e", "l", ".", "p", "n", "g">>

----------------------------------------------------------------------------
(* Fonts *)

NoFont == [kind |-> "unset", path |-> "", size |-> 0]

\* ImageFont.load_default()
load_default == [kind |-> "default", path |-> "", size |-> 0]

\* ImageFont.truetype(path, size), when the file loads
truetype(path, size) == [kind |-> "truetype", path |-> path, size |-> size]

\* the loop body without the break: every candidate is probed and the last
\* existing one wins
probe_step_no_break(idx, fp, exists) ==
    [font_path |-> IF idx \in exists THEN font_paths[idx] ELSE fp,
     brk       |-> FALSE]

\* one iteration of `for path in font_paths`: os.path.exists(path), and on
\* success the assignment and the break
probe_step(idx, fp, exists) ==
    [font_path |-> IF idx \in exists THEN font_paths[idx] ELSE fp,
     brk       |-> idx \in exists]

MsgUsing(path) == [msg |-> "Using font: ", arg |-> path]
MsgWarning ==
    [msg |-> "Warning: No suitable CJK font found. Using default. Characters may not render.",
     arg |-> ""]
MsgFailed == [msg |-> "Font loading failed. Using default.", arg |-> ""]

\* the font selection without the else branch: with no font path the load
\* is not attempted and nothing is substituted
resolve_font_no_fallback(fp, loadOK) ==
    IF fp # None
    THEN IF loadOK
         THEN [font |-> truetype(fp, FontSize), out |-> <<MsgUsing(fp)>>, raised |-> FALSE]
         ELSE [font |-> load_default, out |-> <<MsgUsing(fp), MsgFailed>>, raised |-> FALSE]
    ELSE [font |-> NoFont, out |-> <<>>, raised |-> TRUE]

\* the font selection without the except clause: a failing load propagates
resolve_font_no_except(fp, loadOK) ==
    IF fp # None
    THEN IF loadOK
         THEN [font |-> truetype(fp, FontSize), out |-> <<MsgUsing(fp)>>, raised |-> FALSE]
         ELSE [font |-> NoFont, out |-> <<MsgUsing(fp)>>, raised |-> TRUE]
    ELSE [font |-> load_default, out |-> <<MsgWarning>>, raised |-> FALSE]

\* `if font_path: ... else: ...` inside the try, and the except clause:
\* the font handle, what is printed, and whether an exception leaves the
\* statement
resolve_font(fp, loadOK) ==
    IF fp # None
    THEN IF loadOK
         THEN [font |-> truetype(fp, FontSize), out |-> <<MsgUsing(fp)>>, raised |-> FALSE]
         ELSE [font |-> load_default, out |-> <<MsgUsing(fp), MsgFailed>>, raised |-> FALSE]
    ELSE [font |-> load_default, out |-> <<MsgWarning>>, raised |-> FALSE]

----------------------------------------------------------------------------
(* Images *)

\* Image.new(mode, size, color)
new_image(mode, size, color) ==
    [mode |-> mode, size |-> size, color |-> color, ops |-> <<>>,
     resample |-> "none", from |-> size]

\* draw.ellipse(box, fill, outline, width)
ellipse(img, box, fill, outline, width) ==
    [img EXCEPT !.ops = Append(@, [op |-> "ellipse", box |-> box, fill |-> fill,
                                   outline |-> outline, width |-> width,
                                   text |-> "", font |-> NoFont])]

\* draw.text((x, y), text, font, fill); the position is in tenths of a pixel
text(img, x10, y10, txt, fnt, fill) ==
    [img EXCEPT !.ops = Append(@, [op |-> "text", box |-> <<x10, y10>>, fill |-> fill,
                                   outline |-> "", width |-> 0,
                                   text |-> txt, font |-> fnt])]

\* the downscale left out: the working canvas is what is saved
resize_noop(img, size) == img

\* img.resize(size, resample=LANCZOS)
resize(img, size) ==
    [img EXCEPT !.from = img.size, !.size = size, !.resample = "LANCZOS"]

\* create_piece_image up to the save, with the supersampling factor as a
\* parameter; bbox is what draw.textbbox returns for the text and the font
render(txt, text_color, bg_color, fnt, bbox, sf) ==
    LET size         == <<target_size * sf, target_size * sf>>
        img0         == new_image("RGBA", size, <<0, 0, 0, 0>>)
        border_width == 4 * sf
        img1         == ellipse(img0,
                                <<border_width, border_width,
                                  size[1] - border_width, size[2] - border_width>>,
                                bg_color, text_color, border_width)
        text_width   == bbox[3] - bbox[1]
        text_height  == bbox[4] - bbox[2]
        x10          == 5 * (size[1] - text_width)
        y10          == 5 * (size[2] - text_height) - text_height
        img2         == text(img1, x10, y10, txt, fnt, text_color)
    IN  resize(img2, <<target_size, target_size>>)

\* a renderer that ignores the handle it is given and loads a font itself
create_piece_image_reload(txt, text_color, bg_color, fnt, bbox) ==
    render(txt, text_color, bg_color, load_default, bbox, scale_factor)

\* the image create_piece_image saves
create_piece_image(txt, text_color, bg_color, fnt, bbox) ==
    render(txt, text_color, bg_color, fnt, bbox, scale_factor)

\* the image create_board_image saves
board_image == new_image("RGBA", <<BoardSize, BoardSize>>, <<222, 184, 135, 255>>)

----------------------------------------------------------------------------
(* The file system *)

\* os.makedirs(path) without exist_ok: an existing directory is an error
makedirs_strict(exists, ok) ==
    [dir |-> exists \/ ok, raised |-> exists \/ ~ok]

\* os.makedirs(path, exist_ok=True); ok is FALSE when the call fails
makedirs(exists, ok) ==
    [dir |-> exists \/ ok, raised |-> ~ok]

\* a save whose failure is swallowed
save_swallow(files, filename, img, ok) ==
    [fs     |-> IF ok
                THEN [p \in DOMAIN files \cup {filename} |->
                         IF p = filename THEN img ELSE files[p]]
                ELSE files,
     raised |-> FALSE]

\* img.save(filename); ok is FALSE when the write fails (unwritable path)
save(files, filename, img, ok) ==
    [fs     |-> IF ok
                THEN [p \in DOMAIN files \cup {filename} |->
                         IF p = filename THEN img ELSE files[p]]
                ELSE files,
     raised |-> ~ok]

MsgGenerated(filename) == [msg |-> "Generated ", arg |-> filename]

Range(s) == {s[n] : n \in 1..Len(s)}

----------------------------------------------------------------------------
(* State *)

VARIABLES
    env,          \* the environment: which font files exist, whether the font
                  \* file loads, what textbbox measures
    dir,          \* whether assets/textures exists
    fs,           \* the files under assets/textures: path -> image
    run,          \* which run of the script this is
    pc,           \* the statement the script is at
    idx,          \* position in font_paths of the probe loop
    probed,       \* the positions os.path.exists was called on, in order
    font_path,
    font,
    piece,        \* position in pieces_map of the piece loop
    calls,        \* the create_piece_image calls made, in order
    writes,       \* the paths saved by this run, in order
    out,          \* what this run printed
    err,          \* the exception that ended the run
    faults,       \* how many I/O calls of this run failed
    resolutions,  \* how many times this run assigned the font handle
    prev_fs,      \* the files as the previous run left them
    prev_writes,  \* the paths the previous run saved
    depth,        \* frames of create_board_image on the stack
    bpc,          \* where the innermost frame of create_board_image is
    board_writes, \* saves of board.png since create_board_image was called
    rin,          \* render harness: the arguments of a render call
    rout          \* render harness: the image the call saved

svars == <<env, dir, fs, run, pc, idx, probed, font_path, font, piece, calls,
           writes, out, err, faults, resolutions, prev_fs, prev_writes>>
bvars == <<depth, bpc, board_writes>>
rvars == <<rin, rout>>
vars  == <<svars, bvars, rvars>>

BBoxes == {<<0, 0, 0, 0>>, <<12, 48, 268, 296>>}

Envs == [exists : SUBSET (1..Len(font_paths)), loadOK : BOOLEAN, bbox : BBoxes]

InitScript ==
    /\ env \in Envs
    /\ dir \in BOOLEAN
    /\ fs = <<>>
    /\ run = 1
    /\ pc = "makedirs"
    /\ idx = 1
    /\ probed = <<>>
    /\ font_path = None
    /\ font = NoFont
    /\ piece = 1
    /\ calls = <<>>
    /\ writes = <<>>
    /\ out = <<>>
    /\ err = None
    /\ faults = 0
    /\ resolutions = 0
    /\ prev_fs = <<>>
    /\ prev_writes = {}
    /\ depth = 0
    /\ bpc = "idle"
    /\ board_writes = 0

Init ==
    /\ InitScript
    /\ rin = <<>>
    /\ rout = <<>>

----------------------------------------------------------------------------
(* The script *)

\* os.makedirs("assets/textures", exist_ok=True)
MakeDirs ==
    /\ pc = "makedirs"
    /\ \E ok \in BOOLEAN :
          LET r == makedirs(dir, ok) IN
          /\ dir' = r.dir
          /\ faults' = IF ok THEN faults ELSE faults + 1
          /\ IF r.raised
             THEN pc' = "aborted" /\ err' = "OSError"
             ELSE pc' = "probe" /\ err' = err
    /\ UNCHANGED <<env, fs, run, idx, probed, font_path, font, piece, calls,
                   writes, out, resolutions, prev_fs, prev_writes>>
    /\ UNCHANGED <<bvars, rvars>>

\* one iteration of the loop over font_paths
ProbeStep ==
    /\ pc = "probe"
    /\ LET r == probe_step(idx, font_path, env.exists) IN
       /\ probed' = Append(probed, idx)
       /\ font_path' = r.font_path
       /\ IF r.brk \/ idx = Len(font_paths)
          THEN pc' = "load" /\ idx' = idx
          ELSE pc' = pc /\ idx' = idx + 1
    /\ UNCHANGED <<env, dir, fs, run, font, piece, calls, writes, out, err,
                   faults, resolutions, prev_fs, prev_writes>>
    /\ UNCHANGED <<bvars, rvars>>

\* the rest of the try statement: load the font found, or the default
LoadFont ==
    /\ pc = "load"
    /\ LET r == resolve_font(font_path, env.loadOK) IN
       /\ out' = out \o r.out
       /\ IF r.raised
          THEN /\ pc' = "aborted"
               /\ err' = "FontError"
               /\ font' = font
               /\ resolutions' = resolutions
          ELSE /\ pc' = "red"
               /\ err' = err
               /\ font' = r.font
               /\ resolutions' = resolutions + 1
    /\ UNCHANGED <<env, dir, fs, run, idx, probed, font_path, piece, calls,
                   writes, faults, prev_fs, prev_writes>>
    /\ UNCHANGED <<bvars, rvars>>

\* the body of create_piece_image, called with the font handle: render,
\* save, print
Call(filename, txt, side_colors, next_pc, next_piece) ==
    \E ok \in BOOLEAN :
       LET img == create_piece_image(txt, side_colors.text, side_colors.bg, font, env.bbox)
           r   == save(fs, filename, img, ok)
       IN  /\ calls' = Append(calls, [filename |-> filename, text |-> txt,
                                      font |-> font, drawn |-> img.ops[2].font])
           /\ fs' = r.fs
           /\ faults' = IF ok THEN faults ELSE faults + 1
           /\ IF r.raised
              THEN /\ pc' = "aborted"
                   /\ err' = "OSError"
                   /\ UNCHANGED <<writes, out, piece>>
              ELSE /\ IF ok THEN writes' = Append(writes, filename)
                            ELSE writes' = writes
                   /\ out' = Append(out, MsgGenerated(filename))
                   /\ pc' = next_pc
                   /\ piece' = next_piece
                   /\ err' = err

\* the first call of the loop body
RenderRed ==
    /\ pc = "red"
    /\ Call(filename_red(pieces_map[piece].name), pieces_map[piece].red,
            colors.red, "black", piece)
    /\ UNCHANGED <<env, dir, run, idx, probed, font_path, font, resolutions,
                   prev_fs, prev_writes>>
    /\ UNCHANGED <<bvars, rvars>>

\* the second call of the loop body, and the step to the next piece
RenderBlack ==
    /\ pc = "black"
    /\ Call(filename_black(pieces_map[piece].name), pieces_map[piece].black,
            colors.black,
            IF piece = Len(pieces_map) THEN "def" ELSE "red",
            IF piece = Len(pieces_map) THEN piece ELSE piece + 1)
    /\ UNCHANGED <<env, dir, run, idx, probed, font_path, font, resolutions,
                   prev_fs, prev_writes>>
    /\ UNCHANGED <<bvars, rvars>>

\* `def create_board_image():` binds the name; its body, which holds the
\* call create_board_image() and the pixel image, is not run, and the
\* script ends
DefBoard ==
    /\ pc = "def"
    /\ pc' = "done"
    /\ UNCHANGED <<env, dir, fs, run, idx, probed, font_path, font, piece, calls,
                   writes, out, err, faults, resolutions, prev_fs, prev_writes>>
    /\ UNCHANGED <<bvars, rvars>>

\* the script is run again, in a new process, over the files it left
Rerun ==
    /\ pc = "done"
    /\ bpc = "idle"
    /\ run < MaxRuns
    /\ run' = run + 1
    /\ pc' = "makedirs"
    /\ idx' = 1
    /\ probed' = <<>>
    /\ font_path' = None
    /\ font' = NoFont
    /\ piece' = 1
    /\ calls' = <<>>
    /\ writes' = <<>>
    /\ out' = <<>>
    /\ err' = None
    /\ faults' = 0
    /\ resolutions' = 0
    /\ prev_fs' = fs
    /\ prev_writes' = Range(writes)
    /\ UNCHANGED <<env, dir, fs>>
    /\ UNCHANGED <<bvars, rvars>>

Next ==
    \/ MakeDirs
    \/ ProbeStep
    \/ LoadFont
    \/ RenderRed
    \/ RenderBlack
    \/ DefBoard
    \/ Rerun

Spec == Init /\ [][Next]_vars

----------------------------------------------------------------------------
(* A call of create_board_image *)

\* a caller that has the module's names calls create_board_image()
CallBoard ==
    /\ pc = "done"
    /\ bpc = "idle"
    /\ depth' = 1
    /\ bpc' = "save"
    /\ board_writes' = 0
    /\ UNCHANGED <<svars, rvars>>

\* Image.new, img.save("assets/textures/board.png") and the print
BoardSave ==
    /\ bpc = "save"
    /\ \E ok \in BOOLEAN :
          LET r == save(fs, board_png, board_image, ok) IN
          /\ fs' = r.fs
          /\ faults' = IF ok THEN faults ELSE faults + 1
          /\ IF r.raised
             THEN /\ bpc' = "raised"
                  /\ err' = "OSError"
                  /\ depth' = 0
                  /\ UNCHANGED <<board_writes, out>>
             ELSE /\ bpc' = "call"
                  /\ err' = err
                  /\ depth' = depth
                  /\ board_writes' = IF ok THEN board_writes + 1 ELSE board_writes
                  /\ out' = Append(out, MsgGenerated(board_png))
    /\ UNCHANGED <<env, dir, run, pc, idx, probed, font_path, font, piece, calls,
                   writes, resolutions, prev_fs, prev_writes>>
    /\ UNCHANGED rvars

\* the statement after the print, in the body of the function, is the call
\* create_board_image(): a new frame starts at the top of the body
BoardRecurse ==
    /\ bpc = "call"
    /\ depth < RecursionLimit
    /\ depth' = depth + 1
    /\ bpc' = "save"
    /\ UNCHANGED <<svars, rvars, board_writes>>

\* the call that exceeds the interpreter's recursion limit raises, and the
\* exception unwinds every frame: no frame gets past its call, so the
\* statements after it (the pixel image) are never run
BoardOverflow ==
    /\ bpc = "call"
    /\ depth = RecursionLimit
    /\ depth' = 0
    /\ bpc' = "raised"
    /\ err' = "RecursionError"
    /\ UNCHANGED <<env, dir, fs, run, pc, idx, probed, font_path, font, piece, calls,
                   writes, out, faults, resolutions, prev_fs, prev_writes>>
    /\ UNCHANGED <<rvars, board_writes>>

NextCall ==
    \/ Next
    \/ CallBoard
    \/ BoardSave
    \/ BoardRecurse
    \/ BoardOverflow

SpecCall == Init /\ [][NextCall]_vars

----------------------------------------------------------------------------
(* create_piece_image as a function of its arguments *)

Glyphs == {pieces_map[n].red : n \in 1..Len(pieces_map)}
              \cup {pieces_map[n].black : n \in 1..Len(pieces_map)}

Fonts == {load_default} \cup {truetype(font_paths[n], FontSize) : n \in 1..Len(font_paths)}

RenderInputs ==
    [text : Glyphs, colors : {colors.red, colors.black}, font : Fonts,
     bbox : BBoxes, sf : 1..MaxScale]

InitRender ==
    /\ InitScript
    /\ env = [exists |-> {}, loadOK |-> TRUE, bbox |-> <<0, 0, 0, 0>>]
    /\ dir = FALSE
    /\ rin \in {<<a>> : a \in RenderInputs}
    /\ rout = <<>>

\* one call: the image that reaches img.save
RenderCall ==
    /\ Len(rin) = 1
    /\ Len(rout) = 0
    /\ rout' = <<render(rin[1].text, rin[1].colors.text, rin[1].colors.bg,
                        rin[1].font, rin[1].bbox, rin[1].sf)>>
    /\ UNCHANGED <<svars, bvars, rin>>

SpecRender == InitRender /\ [][RenderCall]_vars

----------------------------------------------------------------------------
(* Properties *)

\* the file names the generator is to produce, written out letter by letter
ExpectedNames ==
    << <<"g", "e", "n", "e", "r", "a", "l">>,
       <<"a", "d", "v", "i", "s", "o", "r">>,
       <<"e", "l", "e", "p", "h", "a", "n", "t">>,
       <<"h", "o", "r", "s", "e">>,
       <<"c", "h", "a", "r", "i", "o", "t">>,
       <<"c", "a", "n", "n", "o", "n">>,
       <<"s", "o", "l", "d", "i", "e", "r">> >>

Sides == {<<"r", "e", "d">>, <<"b", "l", "a", "c", "k">>}

ExpectedPath(side, n) ==
    <<"a", "s", "s", "e", "t", "s", "/", "t", "e", "x", "t", "u", "r", "e", "s", "/">>
        \o side \o <<"_">> \o ExpectedNames[n] \o <<".", "p", "n", "g">>

ExpectedPaths == {ExpectedPath(side, n) : side \in Sides, n \in 1..Len(pieces_map)}

Printed(m) == \E n \in 1..Len(out) : out[n].msg = m.msg

AllPiecesSaved ==
    \A p \in ExpectedPaths :
        /\ p \in Range(writes)
        /\ p \in DOMAIN fs
        /\ fs[p].size = <<target_size, target_size>>

\* C1: when a run has completed, each of the 14 paths
\* assets/textures/{side}_{lowercase piece name}.png has been written
\* exactly once by that run, the 14 paths are pairwise distinct, and the run
\* has written no other path.
C1_OneWritePerPiece ==
    pc = "done" =>
        /\ Cardinality(ExpectedPaths) = 2 * Len(pieces_map)
        /\ Len(writes) = 2 * Len(pieces_map)
        /\ \A p \in ExpectedPaths :
               Cardinality({n \in 1..Len(writes) : writes[n] = p}) = 1
        /\ \A n \in 1..Len(writes) : writes[n] \in ExpectedPaths

C1_Witness == pc = "done" /\ faults = 0 /\ Len(writes) > 0

\* C2: when a run has completed, board.png and pixel.png are among the
\* files of assets/textures.
C2_BoardAndPixelWritten ==
    pc = "done" => board_png \in DOMAIN fs /\ pixel_png \in DOMAIN fs

\* C3: the image a render call saves is target_size x target_size for every
\* supersampling factor, the working canvas being factor x target_size on
\* each axis; so is the image create_piece_image saves for the same
\* arguments.
C3_SavedAtTargetSize ==
    Len(rout) = 1 =>
        /\ rout[1].size = <<target_size, target_size>>
        /\ rout[1].from = <<rin[1].sf * target_size, rin[1].sf * target_size>>
        /\ create_piece_image(rin[1].text, rin[1].colors.text, rin[1].colors.bg,
                              rin[1].font, rin[1].bbox).size
               = <<target_size, target_size>>

C3_Witness == Len(rout) = 1 /\ rin[1].sf > 1 /\ rin[1].sf # scale_factor

\* C4: the probe selects the existing candidate of least index, probes no
\* candidate after it, and never selects a path that does not exist; with no
\* existing candidate it probes all and selects none.
C4_FirstExistingSelected ==
    /\ font_path # None =>
           \E n \in env.exists : font_paths[n] = font_path
    /\ pc = "probe" =>
           /\ font_path = None
           /\ \A n \in 1..Len(probed) : probed[n] = n /\ n \notin env.exists
    /\ (pc \notin {"makedirs", "probe"} /\ Len(probed) > 0) =>
           IF env.exists = {}
           THEN /\ font_path = None
                /\ probed = [n \in 1..Len(font_paths) |-> n]
           ELSE LET least == CHOOSE n \in env.exists : \A o \in env.exists : n <= o
                IN  /\ font_path = font_paths[least]
                    /\ probed = [n \in 1..least |-> n]

C4_Witness ==
    /\ pc = "load"
    /\ 1 \notin env.exists
    /\ Cardinality(env.exists) >= 2

\* C5: with no candidate font path existing the run is not aborted by the
\* font: the default font is the handle, the warning is printed, and a run
\* that completes has saved all 14 piece images at target_size x target_size.
C5_DefaultFontFallback ==
    env.exists = {} =>
        /\ pc = "aborted" => faults > 0 /\ err = "OSError"
        /\ pc \in {"red", "black", "def", "done"} =>
               /\ font = load_default
               /\ Printed(MsgWarning)
               /\ ~Printed(MsgFailed)
        /\ pc = "done" => AllPiecesSaved

C5_Witness == env.exists = {} /\ pc = "done" /\ font = load_default

\* C6: a call of create_board_image writes board.png once and returns: it
\* never writes board.png a second time and never ends in an exception of
\* its own.
C6_OneBoardWriteThenReturn ==
    /\ board_writes <= 1
    /\ err # "RecursionError"

\* C7: a failing directory creation or file write ends the run at that
\* step with the error surfaced: the step that fails leaves every file as
\* it was and records no write, and no step follows it.
C7_IOFailureAborts ==
    [][ /\ faults = 0
        /\ faults' > 0 =>
               /\ pc' = "aborted"
               /\ err' = "OSError"
               /\ fs' = fs
               /\ writes' = writes ]_vars

C7_Witness == pc = "aborted" /\ faults > 0 /\ Len(writes) > 0 /\ DOMAIN fs # {}

\* C8: a second run in the same environment is not failed by the directory
\* or the files the first run left, and when it completes it has written
\* the paths the first run wrote and the files are as the first run left
\* them.
C8_RerunIdempotent ==
    run > 1 =>
        /\ pc = "aborted" => faults > 0
        /\ pc = "done" =>
               /\ Range(writes) = prev_writes
               /\ DOMAIN fs = prev_writes
               /\ fs = prev_fs

C8_Witness == run > 1 /\ pc = "done" /\ DOMAIN fs # {}

\* C9: the font handle is assigned once per run, before the first render
\* call; every render call is passed that handle and draws with it, and no
\* render call probes the font paths again.
C9_FontResolvedOnce ==
    /\ resolutions <= 1
    /\ Len(probed) <= Len(font_paths)
    /\ Len(calls) > 0 =>
           /\ resolutions = 1
           /\ pc \notin {"makedirs", "probe", "load"}
    /\ \A n \in 1..Len(calls) :
           /\ calls[n].font = font
           /\ calls[n].drawn = font

C9_Witness == Len(calls) = 2 * Len(pieces_map) /\ font.kind = "truetype"

\* C10: when the selected font file fails to load the run is not aborted by
\* it and no further candidate is probed: the failure is printed, the
\* default font is the handle, and a run that completes has saved all 14
\* piece images.
C10_LoadFailureFallsBack ==
    (font_path # None /\ ~env.loadOK /\ pc # "load") =>
        /\ pc = "aborted" => faults > 0 /\ err = "OSError"
        /\ font = load_default
        /\ resolutions = 1
        /\ Printed(MsgFailed)
        /\ font_paths[probed[Len(probed)]] = font_path
        /\ pc = "done" => AllPiecesSaved

C10_Witness ==
    /\ font_path # None
    /\ ~env.loadOK
    /\ pc = "done"
    /\ \E n \in env.exists : font_paths[n] # font_path

====
